---- MODULE Spec2Model ----
(***************************************************************************)
(* Model of the mail dispatch engine of suricatatalk/mail (package main):  *)
(* MailGunMailer with its unbuffered hand-off channel, the single worker   *)
(* goroutine started by NewMailGun, SendMail (Submit) and Close.           *)
(*                                                                         *)
(* Go semantics used:                                                      *)
(*  - a send on an unbuffered channel completes only in a rendezvous with  *)
(*    a receiver that is at its receive (here: the worker at its select);  *)
(*  - a select with several ready cases picks one of them at random;       *)
(*  - a send on a channel nobody receives from blocks forever;             *)
(*  - context.CancelFunc closes ctx.Done() and may be called repeatedly;   *)
(*  - calling a nil func value panics.                                     *)
(***************************************************************************)
EXTENDS Integers, Sequences, FiniteSets, TLC

\* ------------------------------------------------------------- bounds ----
NumSubmitters == 2
MaxCalls == 2

Submitters == 1..NumSubmitters

\* AppConfig.Sender default
ConfiguredSender == "info@suricata.com"

ErrMailerNotInitialized == "ErrMailerNotInitialized"

VARIABLES
    sendChannel,  \* MailGunMailer.sendChannel: "nil" or "chan"
    sender,       \* MailGunMailer.sender
    cancelled,    \* ctx.Done() is closed
    wstate,       \* position of the worker goroutine
    m,            \* the worker's local m (the dequeued mailStruct), or NoMail
    pc,           \* position of each submitter inside SendMail
    cur,          \* the call each submitter is executing (0: none)
    calls,        \* every SendMail call made so far, with its arguments and result
    handoffs,     \* ids of the calls whose channel send completed, in order
    sendCalls,    \* the mg.Send calls started so far, in order
    sendErr,      \* the worker's local err of the last mg.Send that returned
    seen,         \* whether the token had fired when m was received / sent
    closeReturned, \* some Close() call has returned
    panicked      \* the process died of a nil func call

\* the dispatch engine (package main)
evars == <<sendChannel, sender, cancelled, wstate, m, pc, cur, calls,
           handoffs, sendCalls, sendErr, seen, closeReturned, panicked>>

\* the transport clients (package client) and the Directory they query
VARIABLES
    discoveryClient, \* SuricataMailClient.discoveryClient: "nil" or "registry"
    registry,        \* what the Directory holds for service "mail"
    answer,          \* what the last ServicesByName call returned
    cpc,             \* position of the caller inside SuricataMailClient.SendMail
    serviceURL,      \* SendMail's local serviceURL
    resolveErr,      \* SendMail's local err
    lookups,         \* ServicesByName calls made by the current / last call
    posts,           \* http.Post calls made by the current / last call
    publishes,       \* Publish calls made by the last NatsMailClient.SendMail
    lastOp,          \* the client operation called last
    lastOk,          \* the bool IsConnected returned
    lastRet,         \* the error the last operation returned
    cpanicked,       \* the caller died of a nil dereference
    prevURL          \* where the last post of an earlier call went

cvars == <<discoveryClient, registry, answer, cpc, serviceURL, resolveErr,
           lookups, posts, publishes, lastOp, lastOk, lastRet, cpanicked,
           prevURL>>

\* the message composer (package client) and its concurrent callers
VARIABLES
    composer,  \* SuricataMessageComposer{SubjectTemplate, MessageTemplate}
    tpc,       \* position of each caller of ComposeSubject / ComposeMessage
    targ,      \* which method each caller runs, and its data argument
    tnode,     \* the template node each Execute is at
    tbuf,      \* each call's local bytes.Buffer
    tout       \* the string each caller got back

tvars == <<composer, tpc, targ, tnode, tbuf, tout>>

vars == <<evars, cvars, tvars>>

NotSeen == [atHandoff |-> FALSE, atSend |-> FALSE]

NoMail == [id |-> 0]

\* type mailStruct struct { Sender; Message; Subject; Recipient }
\* a positional composite literal fills the fields in declaration order
mailStruct(f1, f2, f3, f4) ==
    [Sender |-> f1, Message |-> f2, Subject |-> f3, Recipient |-> f4]

\* mailgun.NewMessage(from, subject, text, to)
NewMessage(from, subject, text, to) ==
    [from |-> from, subject |-> subject, body |-> text, recipient |-> to]

\* the struct literal of an older SendMail: subject and message transposed
SendMailLiteralTransposed(snd, subject, message, recipient) ==
    mailStruct(snd, subject, message, recipient)

\* the struct literal SendMail puts on the channel
SendMailLiteral(snd, subject, message, recipient) ==
    mailStruct(snd, message, subject, recipient)

\* ---------------------------------------------------------------- Init ----
\* NewMailGun builds the engine with a channel and starts the worker; the
\* zero value MailGunMailer{} has a nil channel, a nil cancel and no worker.
EngineInit ==
    /\ sendChannel \in {"chan", "nil"}
    /\ sender = ConfiguredSender
    /\ cancelled = FALSE
    /\ wstate = IF sendChannel = "chan" THEN "Idle" ELSE "Absent"
    /\ m = NoMail
    /\ pc = [s \in Submitters |-> "idle"]
    /\ cur = [s \in Submitters |-> 0]
    /\ calls = <<>>
    /\ handoffs = <<>>
    /\ sendCalls = <<>>
    /\ sendErr = "none"
    /\ seen = NotSeen
    /\ closeReturned = FALSE
    /\ panicked = FALSE

\* ------------------------------------------------------------- SendMail ---
\* a SendMail that skips the nil check: the send on a nil channel blocks
SendMailEnterNoCheck(s, subject, message, recipient) ==
    /\ ~panicked
    /\ pc[s] = "idle"
    /\ Len(calls) < MaxCalls
    /\ LET id == Len(calls) + 1
           c == [by |-> s, subject |-> subject, message |-> message,
                 recipient |-> recipient, late |-> (wstate = "Terminated"),
                 ret |-> "pending"]
       IN /\ calls' = Append(calls, c)
          /\ pc' = [pc EXCEPT ![s] = "blocked"]
          /\ cur' = [cur EXCEPT ![s] = id]
    /\ UNCHANGED <<sendChannel, sender, cancelled, wstate, m, handoffs,
                   sendCalls, closeReturned, panicked, sendErr, seen,
                   cvars, tvars>>

\* SendMail is called: the nil check, then the caller offers the mailStruct
\* on the channel and blocks there
SendMailEnter(s, subject, message, recipient) ==
    /\ ~panicked
    /\ pc[s] = "idle"
    /\ Len(calls) < MaxCalls
    /\ LET id == Len(calls) + 1
           c == [by |-> s, subject |-> subject, message |-> message,
                 recipient |-> recipient, late |-> (wstate = "Terminated"),
                 ret |-> "pending"]
       IN IF sendChannel = "nil"
          THEN /\ calls' = Append(calls, [c EXCEPT !.ret = ErrMailerNotInitialized])
               /\ UNCHANGED <<pc, cur>>
          ELSE /\ calls' = Append(calls, c)
               /\ pc' = [pc EXCEPT ![s] = "blocked"]
               /\ cur' = [cur EXCEPT ![s] = id]
    /\ UNCHANGED <<sendChannel, sender, cancelled, wstate, m, handoffs,
                   sendCalls, closeReturned, panicked, sendErr, seen,
                   cvars, tvars>>

\* the message the blocked submitter s is offering
Offered(s) ==
    LET c == calls[cur[s]]
    IN [id |-> cur[s]] @@ SendMailLiteral(sender, c.subject, c.message, c.recipient)

\* a channel with room for a message: the send of s completes while the
\* worker is still inside mg.Send
SelectReceiveBuffered(s) ==
    /\ ~panicked
    /\ wstate \in {"Idle", "Sending"}
    /\ pc[s] = "blocked"

\* a worker that receives again before it has passed m to the provider
SelectReceiveBeforeSend(s) ==
    /\ ~panicked
    /\ wstate \in {"Idle", "Dequeued"}
    /\ pc[s] = "blocked"

\* a worker whose loop is still receiving after the cancellation branch
SelectReceiveAfterExit(s) ==
    /\ ~panicked
    /\ wstate \in {"Idle", "Terminated"}
    /\ pc[s] = "blocked"

\* `case m := <-senderChan` is ready: the worker is at its select and s is
\* blocked in the channel send
SelectReceive(s) ==
    /\ ~panicked
    /\ wstate = "Idle"
    /\ pc[s] = "blocked"

\* the rendezvous: the worker receives what s offers; the send of s completes
Handoff(s) ==
    /\ SelectReceive(s)
    /\ m' = Offered(s)
    /\ wstate' = "Dequeued"
    /\ handoffs' = Append(handoffs, cur[s])
    /\ seen' = [atHandoff |-> cancelled, atSend |-> FALSE]
    /\ pc' = [pc EXCEPT ![s] = "handed"]
    /\ UNCHANGED <<sendChannel, sender, cancelled, cur, calls, sendCalls,
                   closeReturned, panicked, sendErr,
                   cvars, tvars>>

\* a SendMail that waits until the provider call for its message is over
SendMailReturnAfterSend(s) ==
    /\ ~panicked
    /\ pc[s] = "handed"
    /\ cur[s] \in {sendCalls[i].id : i \in DOMAIN sendCalls}
    /\ m.id # cur[s]
    /\ calls' = [calls EXCEPT ![cur[s]].ret = "nil"]
    /\ pc' = [pc EXCEPT ![s] = "idle"]
    /\ cur' = [cur EXCEPT ![s] = 0]
    /\ UNCHANGED <<sendChannel, sender, cancelled, wstate, m, handoffs,
                   sendCalls, closeReturned, panicked, sendErr, seen,
                   cvars, tvars>>

\* `return nil` after the send completed; the handler that called SendMail
\* returns with it, which is when an HTTP caller gets its response
SendMailReturn(s) ==
    /\ ~panicked
    /\ pc[s] = "handed"
    /\ calls' = [calls EXCEPT ![cur[s]].ret = "nil"]
    /\ pc' = [pc EXCEPT ![s] = "idle"]
    /\ cur' = [cur EXCEPT ![s] = 0]
    /\ UNCHANGED <<sendChannel, sender, cancelled, wstate, m, handoffs,
                   sendCalls, closeReturned, panicked, sendErr, seen,
                   cvars, tvars>>

\* --------------------------------------------------------------- worker ---
\* a worker that looks at ctx.Done() again before calling the provider
ProviderSendCheckingCtx ==
    /\ ~panicked
    /\ wstate = "Dequeued"
    /\ IF cancelled
       THEN /\ wstate' = "Idle"
            /\ m' = NoMail
            /\ seen' = NotSeen
            /\ UNCHANGED sendCalls
       ELSE /\ sendCalls' = Append(sendCalls,
                  [id |-> m.id] @@
                  NewMessage(m.Sender, m.Subject, m.Message, m.Recipient))
            /\ wstate' = "Sending"
            /\ seen' = [seen EXCEPT !.atSend = cancelled]
            /\ UNCHANGED m
    /\ UNCHANGED <<sendChannel, sender, cancelled, pc, cur, calls, handoffs,
                   closeReturned, panicked, sendErr,
                   cvars, tvars>>

\* message := mailgun.NewMessage(...); mg.Send(message) is entered
ProviderSend ==
    /\ ~panicked
    /\ wstate = "Dequeued"
    /\ sendCalls' = Append(sendCalls,
          [id |-> m.id] @@
          NewMessage(m.Sender, m.Subject, m.Message, m.Recipient))
    /\ wstate' = "Sending"
    /\ seen' = [seen EXCEPT !.atSend = cancelled]
    /\ UNCHANGED <<sendChannel, sender, cancelled, m, pc, cur, calls, handoffs,
                   closeReturned, panicked, sendErr,
                   cvars, tvars>>

\* a worker without the enclosing for loop: it ends after one message
ProviderReturnNoLoop(e) ==
    /\ ~panicked
    /\ wstate = "Sending"
    /\ sendErr' = e
    /\ seen' = NotSeen
    /\ wstate' = "Terminated"
    /\ m' = NoMail
    /\ UNCHANGED <<sendChannel, sender, cancelled, pc, cur, calls, handoffs,
                   sendCalls, closeReturned, panicked,
                   cvars, tvars>>

\* a worker that gives up (log.Fatal-like) when the provider reported an error
ProviderReturnFatal(e) ==
    /\ ~panicked
    /\ wstate = "Sending"
    /\ sendErr' = e
    /\ seen' = NotSeen
    /\ wstate' = IF e = "error" THEN "Terminated" ELSE "Idle"
    /\ m' = NoMail
    /\ UNCHANGED <<sendChannel, sender, cancelled, pc, cur, calls, handoffs,
                   sendCalls, closeReturned, panicked,
                   cvars, tvars>>

\* a worker that sends m again when the provider reported an error
ProviderReturnRetry(e) ==
    /\ ~panicked
    /\ wstate = "Sending"
    /\ sendErr' = e
    /\ seen' = NotSeen
    /\ wstate' = IF e = "error" THEN "Dequeued" ELSE "Idle"
    /\ m' = IF e = "error" THEN m ELSE NoMail
    /\ UNCHANGED <<sendChannel, sender, cancelled, pc, cur, calls, handoffs,
                   sendCalls, closeReturned, panicked,
                   cvars, tvars>>

\* mg.Send returns (with or without an error, which is only logged); the
\* loop goes back to the select
ProviderReturn(e) ==
    /\ ~panicked
    /\ wstate = "Sending"
    /\ sendErr' = e
    /\ seen' = NotSeen
    /\ wstate' = "Idle"
    /\ m' = NoMail
    /\ UNCHANGED <<sendChannel, sender, cancelled, pc, cur, calls, handoffs,
                   sendCalls, closeReturned, panicked,
                   cvars, tvars>>

\* a worker that is interrupted by the cancellation in the middle of a send
WorkerCancelMidSend ==
    /\ ~panicked
    /\ wstate \in {"Idle", "Sending"}
    /\ cancelled
    /\ wstate' = "Terminated"
    /\ m' = NoMail
    /\ seen' = NotSeen
    /\ UNCHANGED <<sendChannel, sender, cancelled, pc, cur, calls, handoffs,
                   sendCalls, closeReturned, panicked, sendErr,
                   cvars, tvars>>

\* `case <-ctx.Done()` is taken at the select: the goroutine returns
WorkerCancel ==
    /\ ~panicked
    /\ wstate = "Idle"
    /\ cancelled
    /\ wstate' = "Terminated"
    /\ UNCHANGED <<sendChannel, sender, cancelled, m, pc, cur, calls, handoffs,
                   sendCalls, closeReturned, panicked, sendErr, seen,
                   cvars, tvars>>

\* ---------------------------------------------------------------- Close ---
\* a Close that forgets to call cancel
CloseNoCancel ==
    /\ ~panicked
    /\ IF sendChannel = "nil"
       THEN /\ panicked' = TRUE
            /\ UNCHANGED <<cancelled, closeReturned>>
       ELSE /\ closeReturned' = TRUE
            /\ UNCHANGED <<cancelled, panicked>>
    /\ UNCHANGED <<sendChannel, sender, wstate, m, pc, cur, calls, handoffs,
                   sendCalls, sendErr, seen,
                   cvars, tvars>>

\* mgm.cancel(): closes ctx.Done() and returns at once (a repeated call
\* changes nothing); on the zero value the func is nil and the call panics
Close ==
    /\ ~panicked
    /\ IF sendChannel = "nil"
       THEN /\ panicked' = TRUE
            /\ UNCHANGED <<cancelled, closeReturned>>
       ELSE /\ cancelled' = TRUE
            /\ closeReturned' = TRUE
            /\ UNCHANGED panicked
    /\ UNCHANGED <<sendChannel, sender, wstate, m, pc, cur, calls, handoffs,
                   sendCalls, sendErr, seen,
                   cvars, tvars>>

\* ------------------------------------------------- package client: REST ---
MailServiceType == "mail"

HttpMIMEBodyType == "application/json"

ErrMailServiceNotFound == "mailclient: Cannot resolve service host"

ErrMailClientNotInitialized == "mailclient: MailClient not initialized"

\* the addresses instances of the mail service register under
Addresses == {"127.0.0.1:3030", "10.0.0.2:5050"}

\* the listings the Directory can hold for "mail"
Listings ==
    {<<>>} \cup {<<a>> : a \in Addresses}
           \cup {<<a, b>> : a, b \in Addresses}

\* the errors a Directory lookup can end with
DirErrs == {"nil", "etcd: cluster unavailable"}

\* the ways an http.Post can end: no response at all, or a response
PostOutcomes ==
    {[err |-> "connection refused", status |-> 0],
     [err |-> "nil", status |-> 200],
     [err |-> "nil", status |-> 404],
     [err |-> "nil", status |-> 500]}

\* the ways an EncodedConn.Publish can end
PublishErrs == {"nil", "nats: connection closed"}

\* the arguments (recipient, subject, message) of the clients' SendMail
Emails == {[Recipient |-> "r@x", Subject |-> "Subj", Message |-> "Message"]}

NoAnswer == [services |-> <<>>, err |-> "none"]

\* the address the last post went to, for the calls that come after it
EarlierPost == IF posts # <<>> THEN posts[Len(posts)].url ELSE prevURL

\* discoveryClient.ServicesByName(MailServiceType): the listing, or an error
ServicesByName ==
    IF registry.err # "nil"
    THEN [services |-> <<>>, err |-> registry.err]
    ELSE [services |-> registry.services, err |-> "nil"]

\* a resolver that balances onto the last address of the listing
resolveUrlLast(a) ==
    IF a.err # "nil" THEN [url |-> "", err |-> a.err]
    ELSE IF Len(a.services) = 0 THEN [url |-> "", err |-> ErrMailServiceNotFound]
    ELSE [url |-> "http://" \o a.services[Len(a.services)], err |-> "nil"]

\* resolveUrl, on the answer a of the Directory
resolveUrl(a) ==
    IF a.err # "nil" THEN [url |-> "", err |-> a.err]
    ELSE IF Len(a.services) = 0 THEN [url |-> "", err |-> ErrMailServiceNotFound]
    ELSE [url |-> "http://" \o a.services[1], err |-> "nil"]

\* NewSuricataMailClient(disc), disc a Directory client or nil; nothing has
\* been called yet
ClientInit ==
    /\ discoveryClient \in {"registry", "nil"}
    /\ registry \in [services : Listings, err : DirErrs]
    /\ answer = NoAnswer
    /\ cpc = "idle"
    /\ serviceURL = ""
    /\ resolveErr = "nil"
    /\ lookups = 0
    /\ posts = <<>>
    /\ publishes = <<>>
    /\ lastOp = "none"
    /\ lastOk = FALSE
    /\ lastRet = "nil"
    /\ cpanicked = FALSE
    /\ prevURL = ""

\* instances of the mail service register and unregister, the Directory
\* goes away and comes back
DirectoryChange ==
    /\ ~cpanicked
    /\ registry' \in [services : Listings, err : DirErrs]
    /\ registry' # registry
    /\ UNCHANGED <<discoveryClient, answer, cpc, serviceURL, resolveErr,
                   lookups, posts, publishes, lastOp, lastOk, lastRet,
                   cpanicked, prevURL, evars, tvars>>

\* an IsConnected that takes an empty listing for a connection
IsConnectedIgnoringEmpty ==
    /\ ~cpanicked
    /\ cpc = "idle"
    /\ lastOp' = "IsConnected"
    /\ serviceURL' = ""
    /\ resolveErr' = "nil"
    /\ posts' = <<>>
    /\ prevURL' = EarlierPost
    /\ publishes' = <<>>
    /\ IF discoveryClient = "nil"
       THEN /\ lastOk' = FALSE
            /\ lastRet' = ErrMailClientNotInitialized
            /\ lookups' = 0
            /\ answer' = NoAnswer
       ELSE LET a == ServicesByName
            IN /\ answer' = a
               /\ lookups' = 1
               /\ lastOk' = (a.err = "nil")
               /\ lastRet' = a.err
    /\ UNCHANGED <<discoveryClient, registry, cpc, cpanicked, evars, tvars>>

\* SuricataMailClient.IsConnected
IsConnected ==
    /\ ~cpanicked
    /\ cpc = "idle"
    /\ lastOp' = "IsConnected"
    /\ serviceURL' = ""
    /\ resolveErr' = "nil"
    /\ posts' = <<>>
    /\ prevURL' = EarlierPost
    /\ publishes' = <<>>
    /\ IF discoveryClient = "nil"
       THEN /\ lastOk' = FALSE
            /\ lastRet' = ErrMailClientNotInitialized
            /\ lookups' = 0
            /\ answer' = NoAnswer
       ELSE LET a == ServicesByName
            IN /\ answer' = a
               /\ lookups' = 1
               /\ IF a.err # "nil"
                  THEN lastOk' = FALSE /\ lastRet' = a.err
                  ELSE IF Len(a.services) = 0
                  THEN lastOk' = FALSE /\ lastRet' = "nil"
                  ELSE lastOk' = TRUE /\ lastRet' = "nil"
    /\ UNCHANGED <<discoveryClient, registry, cpc, cpanicked, evars, tvars>>

\* a client that keeps the address of its last post and resolves only when
\* it has none
ClientSendMailCaching ==
    /\ ~cpanicked
    /\ cpc = "idle"
    /\ lastOp' = "SendMail"
    /\ lastOk' = FALSE
    /\ posts' = <<>>
    /\ prevURL' = EarlierPost
    /\ publishes' = <<>>
    /\ IF discoveryClient = "nil"
       THEN /\ cpanicked' = TRUE
            /\ lastRet' = "panic: nil pointer dereference"
            /\ UNCHANGED <<answer, lookups, serviceURL, resolveErr, cpc>>
       ELSE IF EarlierPost # ""
       THEN /\ lookups' = 0
            /\ serviceURL' = EarlierPost
            /\ resolveErr' = "nil"
            /\ cpc' = "resolved"
            /\ lastRet' = "pending"
            /\ UNCHANGED <<answer, cpanicked>>
       ELSE LET a == ServicesByName
                r == resolveUrl(a)
            IN /\ answer' = a
               /\ lookups' = 1
               /\ serviceURL' = r.url
               /\ resolveErr' = r.err
               /\ IF r.err # "nil"
                  THEN cpc' = "idle" /\ lastRet' = r.err
                  ELSE cpc' = "resolved" /\ lastRet' = "pending"
               /\ UNCHANGED cpanicked
    /\ UNCHANGED <<discoveryClient, registry, evars, tvars>>

\* a SendMail that posts to the unresolved URL when the resolution failed
ClientSendMailNoFailFast ==
    /\ ~cpanicked
    /\ cpc = "idle"
    /\ lastOp' = "SendMail"
    /\ lastOk' = FALSE
    /\ posts' = <<>>
    /\ prevURL' = EarlierPost
    /\ publishes' = <<>>
    /\ IF discoveryClient = "nil"
       THEN /\ cpanicked' = TRUE
            /\ lastRet' = "panic: nil pointer dereference"
            /\ UNCHANGED <<answer, lookups, serviceURL, resolveErr, cpc>>
       ELSE LET a == ServicesByName
                r == resolveUrl(a)
            IN /\ answer' = a
               /\ lookups' = 1
               /\ serviceURL' = r.url
               /\ resolveErr' = r.err
               /\ cpc' = "resolved"
               /\ lastRet' = "pending"
               /\ UNCHANGED cpanicked
    /\ UNCHANGED <<discoveryClient, registry, evars, tvars>>

\* SuricataMailClient.SendMail up to the http.Post: resolveUrl, whose
\* ServicesByName call on a nil discoveryClient is a nil dereference, and
\* the return of its error
ClientSendMail ==
    /\ ~cpanicked
    /\ cpc = "idle"
    /\ lastOp' = "SendMail"
    /\ lastOk' = FALSE
    /\ posts' = <<>>
    /\ prevURL' = EarlierPost
    /\ publishes' = <<>>
    /\ IF discoveryClient = "nil"
       THEN /\ cpanicked' = TRUE
            /\ lastRet' = "panic: nil pointer dereference"
            /\ UNCHANGED <<answer, lookups, serviceURL, resolveErr, cpc>>
       ELSE LET a == ServicesByName
                r == resolveUrl(a)
            IN /\ answer' = a
               /\ lookups' = 1
               /\ serviceURL' = r.url
               /\ resolveErr' = r.err
               /\ IF r.err # "nil"
                  THEN cpc' = "idle" /\ lastRet' = r.err
                  ELSE cpc' = "resolved" /\ lastRet' = "pending"
               /\ UNCHANGED cpanicked
    /\ UNCHANGED <<discoveryClient, registry, evars, tvars>>

\* the request http.Post(serviceURL, HttpMIMEBodyType, json of eMsg) makes
PostRequest(eMsg, o) ==
    [url |-> serviceURL, contentType |-> HttpMIMEBodyType, body |-> eMsg,
     err |-> o.err, status |-> o.status]

\* a SendMail that posts again when the post failed
ClientPostRetrying(eMsg, o) ==
    /\ ~cpanicked
    /\ cpc = "resolved"
    /\ Len(posts) < 2
    /\ posts' = Append(posts, PostRequest(eMsg, o))
    /\ IF o.err # "nil" /\ Len(posts) = 0
       THEN UNCHANGED <<cpc, lastRet>>
       ELSE cpc' = "idle" /\ lastRet' = o.err
    /\ UNCHANGED <<discoveryClient, registry, answer, serviceURL, resolveErr,
                   lookups, publishes, lastOp, lastOk, cpanicked, prevURL,
                   evars, tvars>>

\* the rest of SuricataMailClient.SendMail: the Email is marshalled and
\* posted; the response is dropped, postErr is returned
ClientPost(eMsg, o) ==
    /\ ~cpanicked
    /\ cpc = "resolved"
    /\ posts' = Append(posts, PostRequest(eMsg, o))
    /\ cpc' = "idle"
    /\ lastRet' = o.err
    /\ UNCHANGED <<discoveryClient, registry, answer, serviceURL, resolveErr,
                   lookups, publishes, lastOp, lastOk, cpanicked, prevURL,
                   evars, tvars>>

\* ------------------------------------------------- package client: NATS ---
\* NatsMailClient.SendMail: one encodedConn.Publish on the topic, its error
\* returned
NatsSendMail(eMsg, e) ==
    /\ ~cpanicked
    /\ cpc = "idle"
    /\ lastOp' = "NatsSendMail"
    /\ lastOk' = FALSE
    /\ lastRet' = e
    /\ publishes' = <<[topic |-> MailServiceType, mail |-> eMsg, err |-> e]>>
    /\ posts' = <<>>
    /\ prevURL' = EarlierPost
    /\ lookups' = 0
    /\ serviceURL' = ""
    /\ resolveErr' = "nil"
    /\ UNCHANGED <<discoveryClient, registry, answer, cpc, cpanicked,
                   evars, tvars>>

Post == \E eMsg \in Emails, o \in PostOutcomes : ClientPost(eMsg, o)

Publish == \E eMsg \in Emails, e \in PublishErrs : NatsSendMail(eMsg, e)

ClientNext ==
    \/ DirectoryChange
    \/ IsConnected
    \/ ClientSendMail
    \/ Post
    \/ Publish

\* --------------------------------------------- package client: composer ---
NumCallers == 2

Callers == 1..NumCallers

\* the nodes text/template parses a template text into
TextNode(t) == [kind |-> "text", text |-> t, field |-> ""]

FieldNode(f) == [kind |-> "field", text |-> "", field |-> f]

\* the composers NewMailComposer is given: the templates of the tests, and a
\* pair whose fields stand in the middle of the text
ComposerConfigs ==
    {[SubjectTemplate |-> <<TextNode("Suricata: Registration confirmation")>>,
      MessageTemplate |->
          <<TextNode("Please confirm the registration on Suricata Talk website with click on this link "),
            FieldNode("ConfirmationLink")>>],
     [SubjectTemplate |-> <<TextNode("Hi "), FieldNode("Name"), TextNode("!")>>,
      MessageTemplate |->
          <<FieldNode("Name"), TextNode(": "), FieldNode("ConfirmationLink")>>]}

\* the data values callers pass: structs with both fields, and struct{}{}
DataValues ==
    {[fields |-> {"ConfirmationLink", "Name"},
      ConfirmationLink |-> "http://127.0.0.1:8080/confirm", Name |-> "radek"],
     [fields |-> {"ConfirmationLink", "Name"},
      ConfirmationLink |-> "http://h/c", Name |-> "eva"],
     [fields |-> {}, ConfirmationLink |-> "", Name |-> ""]}

NoArg == [method |-> "none", data |-> [fields |-> {}, ConfirmationLink |-> "", Name |-> ""],
          overlapped |-> FALSE]

\* the value of field f of the struct d
FieldValue(d, f) == IF f = "ConfirmationLink" THEN d.ConfirmationLink ELSE d.Name

\* the template a method of the composer executes
TemplateOf(method) ==
    IF method = "ComposeSubject" THEN composer.SubjectTemplate
    ELSE composer.MessageTemplate

ComposerInit ==
    /\ composer \in ComposerConfigs
    /\ tpc = [c \in Callers |-> "idle"]
    /\ targ = [c \in Callers |-> NoArg]
    /\ tnode = [c \in Callers |-> 0]
    /\ tbuf = [c \in Callers |-> ""]
    /\ tout = [c \in Callers |-> ""]

\* ComposeSubject(data) / ComposeMessage(data) is entered:
\* `var subject bytes.Buffer`, then Execute starts at the first node
ComposeCall(c, method, data) ==
    /\ tpc[c] # "executing"
    /\ LET others == {o \in Callers : o # c /\ tpc[o] = "executing"}
       IN targ' = [o \in Callers |->
                     IF o = c THEN [method |-> method, data |-> data,
                                    overlapped |-> (others # {})]
                     ELSE IF o \in others THEN [targ[o] EXCEPT !.overlapped = TRUE]
                     ELSE targ[o]]
    /\ tpc' = [tpc EXCEPT ![c] = "executing"]
    /\ tnode' = [tnode EXCEPT ![c] = 1]
    /\ tbuf' = [tbuf EXCEPT ![c] = ""]
    /\ tout' = [tout EXCEPT ![c] = ""]
    /\ UNCHANGED <<composer, evars, cvars>>

\* a composer that keeps one buffer in the struct, shared by all calls
ExecuteNodeSharedBuffer(c) ==
    /\ tpc[c] = "executing"
    /\ tnode[c] <= Len(TemplateOf(targ[c].method))
    /\ LET n == TemplateOf(targ[c].method)[tnode[c]]
           d == targ[c].data
       IN IF n.kind = "text"
          THEN /\ tbuf' = [o \in Callers |-> tbuf[1] \o n.text]
               /\ tnode' = [tnode EXCEPT ![c] = @ + 1]
          ELSE IF n.field \in d.fields
          THEN /\ tbuf' = [o \in Callers |-> tbuf[1] \o FieldValue(d, n.field)]
               /\ tnode' = [tnode EXCEPT ![c] = @ + 1]
          ELSE /\ tnode' = [tnode EXCEPT ![c] = Len(TemplateOf(targ[c].method)) + 1]
               /\ UNCHANGED tbuf
    /\ UNCHANGED <<composer, tpc, targ, tout, evars, cvars>>

\* Template.Execute(&subject, data) writes the next node into the call's
\* buffer; a field the data does not have ends the execution with an error
\* (which the composer drops), leaving what was written so far
ExecuteNode(c) ==
    /\ tpc[c] = "executing"
    /\ tnode[c] <= Len(TemplateOf(targ[c].method))
    /\ LET n == TemplateOf(targ[c].method)[tnode[c]]
           d == targ[c].data
       IN IF n.kind = "text"
          THEN /\ tbuf' = [tbuf EXCEPT ![c] = @ \o n.text]
               /\ tnode' = [tnode EXCEPT ![c] = @ + 1]
          ELSE IF n.field \in d.fields
          THEN /\ tbuf' = [tbuf EXCEPT ![c] = @ \o FieldValue(d, n.field)]
               /\ tnode' = [tnode EXCEPT ![c] = @ + 1]
          ELSE /\ tnode' = [tnode EXCEPT ![c] = Len(TemplateOf(targ[c].method)) + 1]
               /\ UNCHANGED tbuf
    /\ UNCHANGED <<composer, tpc, targ, tout, evars, cvars>>

\* `return subject.String()`
ComposeReturn(c) ==
    /\ tpc[c] = "executing"
    /\ tnode[c] > Len(TemplateOf(targ[c].method))
    /\ tout' = [tout EXCEPT ![c] = tbuf[c]]
    /\ tpc' = [tpc EXCEPT ![c] = "returned"]
    /\ UNCHANGED <<composer, targ, tnode, tbuf, evars, cvars>>

Compose ==
    \E c \in Callers, method \in {"ComposeSubject", "ComposeMessage"},
       data \in DataValues : ComposeCall(c, method, data)

Execute == \E c \in Callers : ExecuteNode(c)

Composed == \E c \in Callers : ComposeReturn(c)

ComposerNext ==
    \/ Compose
    \/ Execute
    \/ Composed

\* ----------------------------------------------------------------- Next ---
\* -------------------------------------------------------------- ingress ---
\* the bodies an HTTP caller posts: a well-formed envelope, and one that is
\* not JSON
WellFormedBody == "{\"recipient\":\"r@x\",\"subject\":\"a\",\"message\":\"b\"}"

HttpBodies == {WellFormedBody, "not json"}

\* json.NewDecoder(req.Body).Decode(&mail) with the error dropped: a body
\* that does not decode leaves mail at its zero value
JsonDecode(body) ==
    IF body = WellFormedBody
    THEN mailStruct("", "b", "a", "r@x")
    ELSE mailStruct("", "", "", "")

\* the mailStructs the NATS subscription can be handed
NatsMails == {mailStruct("", "b", "a", "r@x"), mailStruct("", "", "", "")}

\* main subscribes NatsMailerFunc and serves HttpMailerFunc on the same
\* mailer; odd submitters are HTTP requests, even ones NATS deliveries
Ingress(s) == IF s % 2 = 1 THEN "http" ELSE "nats"

\* HttpMailerFunc up to its call of SendMail
HttpMailerFunc(s, body) ==
    LET mail == JsonDecode(body)
    IN SendMailEnter(s, mail.Subject, mail.Message, mail.Recipient)

\* NatsMailerFunc up to its call of SendMail
NatsMailerFunc(s, mail) ==
    SendMailEnter(s, mail.Subject, mail.Message, mail.Recipient)

Submit ==
    \E s \in Submitters :
        IF Ingress(s) = "http"
        THEN \E body \in HttpBodies : HttpMailerFunc(s, body)
        ELSE \E mail \in NatsMails : NatsMailerFunc(s, mail)

Receive == \E s \in Submitters : Handoff(s)

Return == \E s \in Submitters : SendMailReturn(s)

ProviderDone == \E e \in {"nil", "error"} : ProviderReturn(e)

Next ==
    \/ Submit
    \/ Receive
    \/ Return
    \/ ProviderSend
    \/ ProviderDone
    \/ WorkerCancel
    \/ Close

\* The engine, the clients and the composer are separate programs; each
\* specification runs one of them and leaves the other two where
\* construction put them.
EngineParked == EngineInit /\ sendChannel = "chan"

ClientParked ==
    /\ ClientInit
    /\ discoveryClient = "registry"
    /\ registry = [services |-> <<>>, err |-> "nil"]

ComposerParked ==
    /\ ComposerInit
    /\ composer.SubjectTemplate = <<TextNode("Suricata: Registration confirmation")>>

Init == EngineInit /\ ClientParked /\ ComposerParked

Spec == Init /\ [][Next]_vars

ClientSpecInit == EngineParked /\ ClientInit /\ ComposerParked

ClientSpec == ClientSpecInit /\ [][ClientNext]_vars

ComposerSpecInit == EngineParked /\ ClientParked /\ ComposerInit

ComposerSpec == ComposerSpecInit /\ [][ComposerNext]_vars

\* Fair scheduling: goroutines that can run do run, the provider call
\* returns, a sender blocked on the channel is served when the worker keeps
\* coming back to its select (the runtime queues blocked senders in FIFO
\* order), and the random choice of select does not avoid a ready case
\* forever.  Submitting and closing are up to the environment.
FairSpec ==
    /\ Init
    /\ [][Next]_vars
    /\ WF_vars(ProviderSend)
    /\ WF_vars(ProviderDone)
    /\ WF_vars(Return)
    /\ \A s \in Submitters : SF_vars(Handoff(s))
    /\ SF_vars(WorkerCancel)

\* ------------------------------------------------------------ properties ---
Range(f) == {f[i] : i \in DOMAIN f}

SentIds == {sendCalls[i].id : i \in DOMAIN sendCalls}

\* the worker state machine of the engine: Idle, Processing, Terminated
WorkerState ==
    CASE wstate = "Idle" -> "Idle"
      [] wstate \in {"Dequeued", "Sending"} -> "Processing"
      [] wstate = "Terminated" -> "Terminated"
      [] OTHER -> "Absent"

\* C1: every completed hand-off causes exactly one Provider.Send call: the
\* Send calls started never outnumber the completed hand-offs, every Send is
\* for a handed-off message, no message is sent twice, and the only
\* handed-off message not yet sent is the one the worker holds before its
\* Send call.
C1_OneSendPerHandoff ==
    /\ Len(sendCalls) <= Len(handoffs)
    /\ SentIds \subseteq Range(handoffs)
    /\ \A i, j \in DOMAIN sendCalls : i # j => sendCalls[i].id # sendCalls[j].id
    /\ \A i, j \in DOMAIN handoffs : i # j => handoffs[i] # handoffs[j]
    /\ Range(handoffs) \ SentIds = (IF wstate = "Dequeued" THEN {m.id} ELSE {})

C1_Witness ==
    /\ Len(handoffs) = 2
    /\ Len(sendCalls) = 2
    /\ wstate = "Idle"

\* C2: every Provider.Send gets the configured sender, and the subject, body
\* and recipient of the Submit call it stems from, subject and body not
\* transposed.
C2_FieldMapping ==
    \A i \in DOMAIN sendCalls :
        LET c == calls[sendCalls[i].id]
        IN /\ sendCalls[i].from = ConfiguredSender
           /\ sendCalls[i].subject = c.subject
           /\ sendCalls[i].body = c.message
           /\ sendCalls[i].recipient = c.recipient

C2_Witness ==
    \E i \in DOMAIN sendCalls :
        /\ calls[sendCalls[i].id].subject = "a"
        /\ calls[sendCalls[i].id].message = "b"
        /\ sendCalls[i].subject = "a"
        /\ sendCalls[i].body = "b"

\* C3: the sequence of messages passed to Provider.Send is the sequence in
\* which the hand-offs completed (a prefix of it while the worker still
\* holds the last one).
C3_FifoOrder ==
    /\ Len(sendCalls) <= Len(handoffs)
    /\ \A i \in DOMAIN sendCalls : sendCalls[i].id = handoffs[i]

\* two concurrent submitters, served in the opposite order of their calls
C3_Witness ==
    /\ handoffs = <<2, 1>>
    /\ Len(sendCalls) = 2
    /\ calls[1].by # calls[2].by

\* C4: while Close() is never called, every Submit call on a started engine
\* eventually completes its hand-off and its message is eventually passed to
\* Provider.Send.
C4_NoStarvation ==
    \A i \in 1..MaxCalls :
        (i <= Len(calls) /\ sendChannel = "chan")
            ~> ((i \in Range(handoffs) /\ i \in SentIds) \/ cancelled)

\* the second call overtook the first, which was still waiting on the
\* channel; both were served and sent
C4_Witness ==
    /\ ~cancelled
    /\ handoffs = <<2, 1>>
    /\ SentIds = {1, 2}
    /\ \A i \in DOMAIN calls : calls[i].ret = "nil"

\* C5: a message whose hand-off completed is passed to Provider.Send, also
\* when Close() is called after the hand-off and before the Send call.
C5_NoAcceptedMessageLost ==
    \A i \in 1..MaxCalls : (i \in Range(handoffs)) ~> (i \in SentIds)

\* Submit returned nil, Close() came after the hand-off and before the
\* Send call, and the message has been passed to Provider.Send
C5_Witness ==
    /\ wstate = "Sending"
    /\ ~seen.atHandoff
    /\ seen.atSend
    /\ calls[m.id].ret = "nil"
    /\ m.id \in SentIds

\* C6: a Submit call made after the worker terminated is delivered or
\* returns.  A late call that is blocked on the channel while the worker is
\* terminated has neither outcome and can get neither: only the worker
\* receives, and Terminated is absorbing.
LateCallStuck(s) ==
    /\ pc[s] = "blocked"
    /\ calls[cur[s]].late
    /\ wstate = "Terminated"

C6_LateSubmitDeliversOrReturns == \A s \in Submitters : ~LateCallStuck(s)

\* C7 as stated: once the token has fired no hand-off completes.
C7_NoHandoffAfterCancel == [][cancelled => handoffs' = handoffs]_vars

\* C7 amended: once the worker has taken the cancellation branch and exited,
\* no hand-off completes.
C7_NoHandoffAfterExit == [][wstate = "Terminated" => handoffs' = handoffs]_vars

\* the worker has exited and a submitter is waiting on the channel
C7_Witness ==
    /\ wstate = "Terminated"
    /\ \E s \in Submitters : pc[s] = "blocked"

\* C8: the worker only goes Idle -> Processing, Processing -> Idle and
\* Idle -> Terminated; never Processing -> Terminated; Terminated is final.
C8_WorkerTransitions ==
    [][\/ WorkerState' = WorkerState
       \/ WorkerState = "Idle" /\ WorkerState' = "Processing"
       \/ WorkerState = "Processing" /\ WorkerState' = "Idle"
       \/ WorkerState = "Idle" /\ WorkerState' = "Terminated"]_vars

\* Close() was called while this Provider.Send was in flight
C8_Witness ==
    /\ wstate = "Sending"
    /\ cancelled
    /\ ~seen.atSend

\* C9: Close() returns without waiting for the worker, and after it has
\* returned the worker eventually terminates, also with submitters offering
\* messages on the channel.
C9_WorkerTerminates == (closeReturned) ~> (wstate = "Terminated")

\* Close() has returned, a send is in flight and a submitter is offering
C9_Witness ==
    /\ closeReturned
    /\ wstate = "Sending"
    /\ \E s \in Submitters : pc[s] = "blocked"

\* C10: on an engine whose channel is unset every Submit returns
\* ErrMailerNotInitialized without blocking, enqueuing or sending.
C10_NotInitialized ==
    sendChannel = "nil" =>
        /\ \A i \in DOMAIN calls : calls[i].ret = ErrMailerNotInitialized
        /\ \A s \in Submitters : pc[s] = "idle" /\ cur[s] = 0
        /\ handoffs = <<>>
        /\ sendCalls = <<>>
        /\ m = NoMail

C10_Witness ==
    /\ sendChannel = "nil"
    /\ Len(calls) = 2

\* C11 as stated: when Provider.Send is attempted for a message, the handler
\* that submitted it has already returned (the caller has its response).
C11_ResponseBeforeSend ==
    \A i \in DOMAIN sendCalls : calls[sendCalls[i].id].ret = "nil"

\* C11 amended: the handler returns only after the hand-off of its message
\* and from then on never waits for the worker: it can return whether the
\* Provider.Send of its message has not started, is in flight or is over.
C11_ResponseIndependentOfSend ==
    /\ \A i \in DOMAIN calls :
          (calls[i].ret = "nil") => (i \in Range(handoffs))
    /\ \A s \in Submitters :
          (pc[s] = "handed") => ENABLED SendMailReturn(s)

\* the handler has returned and the Send of its message is not yet attempted
C11_Witness ==
    \E i \in DOMAIN calls :
        /\ calls[i].ret = "nil"
        /\ i \notin SentIds
        /\ wstate = "Dequeued"
        /\ m.id = i

\* C12: a Provider.Send error stays in the worker: SendMail on a started
\* engine only ever returns nil, no message (failed or not) is passed to the
\* provider a second time, and when Provider.Send returns, with an error or
\* without, the worker is Idle again and nothing else has changed.
C12_SendErrorTerminal ==
    [][/\ \A i \in DOMAIN calls' :
             sendChannel = "chan" => calls'[i].ret \in {"pending", "nil"}
       /\ (sendCalls' # sendCalls) =>
             /\ Len(sendCalls') = Len(sendCalls) + 1
             /\ sendCalls'[Len(sendCalls')].id \notin SentIds
       /\ (wstate = "Sending" /\ wstate' # "Sending") =>
             /\ wstate' = "Idle"
             /\ sendErr' \in {"nil", "error"}
             /\ UNCHANGED <<calls, pc, cur, handoffs, sendCalls>>]_vars

\* the first Send failed, its Submit returned nil, and the worker is sending
\* the next message
C12_Witness ==
    /\ sendErr = "error"
    /\ Len(sendCalls) = 2
    /\ wstate = "Sending"
    /\ calls[sendCalls[1].id].ret = "nil"

\* C13: every message on the hand-off channel and every Provider.Send has a
\* non-empty recipient.
C13_RecipientNonEmpty ==
    /\ \A i \in DOMAIN handoffs : calls[handoffs[i]].recipient # ""
    /\ \A i \in DOMAIN sendCalls : sendCalls[i].recipient # ""
    /\ m # NoMail => m.Recipient # ""

\* C14: resolveUrl returns the Directory's error unchanged when the lookup
\* failed, ErrMailServiceNotFound when it gave no address, and otherwise
\* "http://" followed by the first address of the listing; with the listing
\* ["127.0.0.1:3030"] SendMail posts to http://127.0.0.1:3030.
C14_ResolveFirstAddress ==
    (lastOp = "SendMail" /\ ~cpanicked) =>
        /\ (answer.err # "nil") =>
              (resolveErr = answer.err /\ serviceURL = "")
        /\ (answer.err = "nil" /\ answer.services = <<>>) =>
              (resolveErr = ErrMailServiceNotFound /\ serviceURL = "")
        /\ (answer.err = "nil" /\ answer.services # <<>>) =>
              /\ resolveErr = "nil"
              /\ serviceURL = "http://" \o Head(answer.services)
        /\ (answer = [services |-> <<"127.0.0.1:3030">>, err |-> "nil"]) =>
              \A i \in DOMAIN posts : posts[i].url = "http://127.0.0.1:3030"

\* two addresses are listed and the post went to the first
C14_Witness ==
    /\ lastOp = "SendMail"
    /\ answer = [services |-> <<"127.0.0.1:3030", "10.0.0.2:5050">>, err |-> "nil"]
    /\ Len(posts) = 1
    /\ posts[1].url = "http://127.0.0.1:3030"

\* C15: when the resolution fails (lookup error, or no address), SendMail
\* returns the resolver's error and posts nothing.
C15_FailFast ==
    (lastOp = "SendMail" /\ ~cpanicked
        /\ (answer.err # "nil" \/ answer.services = <<>>)) =>
        /\ cpc = "idle"
        /\ posts = <<>>
        /\ lastRet = resolveErr
        /\ lastRet = (IF answer.err # "nil" THEN answer.err
                      ELSE ErrMailServiceNotFound)

\* SendMail came back with the Directory's own error
C15_Witness ==
    /\ lastOp = "SendMail"
    /\ cpc = "idle"
    /\ answer.err = "etcd: cluster unavailable"
    /\ lastRet = "etcd: cluster unavailable"
    /\ posts = <<>>

\* C16: IsConnected returns (false, ErrMailClientNotInitialized) without a
\* Directory; with one, (false, err) when the lookup fails, else (true, nil)
\* exactly when at least one address is listed and (false, nil) when none.
C16_IsConnected ==
    (lastOp = "IsConnected") =>
        IF discoveryClient = "nil"
        THEN /\ ~lastOk
             /\ lastRet = ErrMailClientNotInitialized
             /\ lookups = 0
        ELSE IF answer.err # "nil"
        THEN ~lastOk /\ lastRet = answer.err
        ELSE /\ lastRet = "nil"
             /\ lastOk = (Len(answer.services) >= 1)

\* IsConnected answered (false, nil): the Directory is there, nothing is listed
C16_Witness ==
    /\ lastOp = "IsConnected"
    /\ discoveryClient = "registry"
    /\ answer = [services |-> <<>>, err |-> "nil"]
    /\ ~lastOk
    /\ lastRet = "nil"

\* C17: SendMail on a client without Directory returns
\* ErrMailClientNotInitialized, does nothing on the network, does not crash.
C17_SendMailNotInitialized ==
    (discoveryClient = "nil" /\ lastOp = "SendMail") =>
        /\ ~cpanicked
        /\ lastRet = ErrMailClientNotInitialized
        /\ lookups = 0
        /\ posts = <<>>

\* C18: SendMail returns an error when the post failed on the network or was
\* answered with a status outside 2xx, and nil only on a 2xx response.
C18_PostFailureSurfaced ==
    (lastOp = "SendMail" /\ cpc = "idle" /\ ~cpanicked) =>
        ((lastRet = "nil") <=>
            /\ Len(posts) = 1
            /\ posts[1].err = "nil"
            /\ posts[1].status \in 200..299)

\* C19 as stated: every SendMail call makes exactly one network operation,
\* one post for the REST client, one publish for the NATS client.
C19_ExactlyOneOperation ==
    /\ (lastOp = "SendMail" /\ cpc = "idle" /\ discoveryClient # "nil") =>
          Len(posts) = 1
    /\ (lastOp = "NatsSendMail") => Len(publishes) = 1

\* C19 amended: a SendMail never makes a second post or publish; the REST
\* client makes one post, to the resolved address, when the resolution
\* succeeded and none when it failed; the NATS client makes one publish on
\* topic "mail" and returns its error.
C19_OneOperationNoRetry ==
    /\ Len(posts) <= 1
    /\ Len(publishes) <= 1
    /\ \A i \in DOMAIN posts : posts[i].url = serviceURL
    /\ (lastOp = "SendMail" /\ cpc = "idle" /\ discoveryClient # "nil") =>
          /\ Len(posts) = (IF resolveErr = "nil" THEN 1 ELSE 0)
          /\ publishes = <<>>
    /\ (lastOp = "NatsSendMail") =>
          /\ Len(publishes) = 1
          /\ publishes[1].topic = "mail"
          /\ lastRet = publishes[1].err
          /\ posts = <<>>

\* the one post failed on the network and SendMail returned its error
C19_Witness ==
    /\ lastOp = "SendMail"
    /\ cpc = "idle"
    /\ Len(posts) = 1
    /\ posts[1].err = "connection refused"
    /\ lastRet = "connection refused"

\* the text of template tpl from node i on, with the fields of d filled in
RECURSIVE Substituted(_, _, _)
Substituted(tpl, d, i) ==
    IF i > Len(tpl) THEN ""
    ELSE (IF tpl[i].kind = "text" THEN tpl[i].text ELSE FieldValue(d, tpl[i].field))
         \o Substituted(tpl, d, i + 1)

\* the data d has every field the template refers to
Supplies(d, tpl) ==
    \A i \in DOMAIN tpl : tpl[i].kind = "field" => tpl[i].field \in d.fields

\* C20: a ComposeSubject / ComposeMessage call whose data supplies the
\* fields of the template returns the template text with the fields filled
\* in, whatever other calls run on the same composer at the same time; equal
\* calls return equal strings; the templates are never changed.
C20_ComposeSubstitutes ==
    /\ composer \in ComposerConfigs
    /\ \A c \in Callers :
          (tpc[c] = "returned" /\ Supplies(targ[c].data, TemplateOf(targ[c].method))) =>
              tout[c] = Substituted(TemplateOf(targ[c].method), targ[c].data, 1)
    /\ \A c, o \in Callers :
          (tpc[c] = "returned" /\ tpc[o] = "returned"
              /\ targ[c].method = targ[o].method /\ targ[c].data = targ[o].data) =>
              tout[c] = tout[o]

\* two calls that ran at the same time returned the strings of the test
C20_Witness ==
    /\ tpc[1] = "returned"
    /\ tpc[2] = "returned"
    /\ targ[1].overlapped
    /\ targ[2].overlapped
    /\ tout[1] = "Please confirm the registration on Suricata Talk website with click on this link http://127.0.0.1:8080/confirm"
    /\ tout[2] = "Suricata: Registration confirmation"

\* the handed-off messages whose Provider.Send is not over yet
Unfinished ==
    {i \in Range(handoffs) : i \notin SentIds \/ (wstate = "Sending" /\ m.id = i)}

\* C21: no hand-off completes while the worker is Processing, a submitter
\* that is blocked on the channel leaves it only by a hand-off to the Idle
\* worker, and the engine never holds more than one handed-off message whose
\* Send is not over.
C21_Backpressure ==
    /\ [](Cardinality(Unfinished) <= 1)
    /\ [][/\ (WorkerState = "Processing") => (handoffs' = handoffs)
          /\ \A s \in Submitters :
                (pc[s] = "blocked" /\ pc'[s] # "blocked") =>
                    (WorkerState = "Idle" /\ WorkerState' = "Processing")]_vars

\* the provider is slow: one message is inside mg.Send, its submitter has
\* returned, and the other submitter is held on the channel
C21_Witness ==
    /\ ~cancelled
    /\ wstate = "Sending"
    /\ Unfinished = {m.id}
    /\ calls[m.id].ret = "nil"
    /\ \E s \in Submitters : pc[s] = "blocked" /\ cur[s] # m.id

\* C22: the client keeps no address between calls: every SendMail and every
\* IsConnected on a client with a Directory asks the Directory once, for the
\* listing of the moment of the call, and a SendMail posts to the first
\* address of that listing, whatever an earlier call posted to.
C22_NoCaching ==
    /\ []((discoveryClient # "nil" /\ lastOp \in {"SendMail", "IsConnected"}) =>
            /\ lookups = 1
            /\ \A i \in DOMAIN posts :
                  /\ answer.err = "nil"
                  /\ answer.services # <<>>
                  /\ posts[i].url = "http://" \o Head(answer.services))
    /\ [][(/\ discoveryClient # "nil"
           /\ cpc = "idle"
           /\ registry' = registry
           /\ lastOp' \in {"SendMail", "IsConnected"}) =>
              answer' = ServicesByName]_vars

\* an earlier call posted to one address, the listing changed, and this
\* SendMail asked again and posted to the new first address
C22_Witness ==
    /\ lastOp = "SendMail"
    /\ lookups = 1
    /\ prevURL = "http://127.0.0.1:3030"
    /\ Len(posts) = 1
    /\ posts[1].url = "http://10.0.0.2:5050"
    /\ answer.services = <<"10.0.0.2:5050", "127.0.0.1:3030">>

\* C23: every Submit call on a started engine eventually returns: no state
\* has a submitter blocked on the hand-off channel while the worker, the
\* only receiver of the channel, has terminated.
C23_NoSubmitterLeftBlocked ==
    (sendChannel = "chan") =>
        \A s \in Submitters :
            (pc[s] = "blocked") => (WorkerState \in {"Idle", "Processing"})

====
